---- MODULE Spec2Model ----
(***************************************************************************)
(* PEARLS online multi-pitch estimator (src/pearls.py) and the frequency   *)
(* grid refinement of src/dictionary_update.py.                            *)
(*                                                                         *)
(* The Pearls object is the record `self`; every method is an operator     *)
(* from the object (and the method's arguments) to the object it leaves    *)
(* behind.  run_algorithm is a loop whose position is `pc`; its loop       *)
(* variable is `idx`.                                                      *)
(*                                                                         *)
(* Numbers.  The basis is exp(2*pi*j*f*t): no entry of it is rational, so  *)
(* the sample-by-sample run tracks every floating-point quantity by what   *)
(* the arithmetic of the source line decides about it: "Z" is a value that *)
(* is exactly zero, "N" a finite value that may be anything (zero          *)
(* included).  Array shapes, indices, slices, the signal, the loop and the *)
(* time variables are exact.  Three numerical routines (_find_active_set,  *)
(* _rls_update and _find_peak_locations) are also modelled exactly, over   *)
(* integers and rationals, and are applied to inputs drawn from bounded    *)
(* sets in specifications of their own (SpecPrune, SpecRls, SpecDict).     *)
(***************************************************************************)
EXTENDS Integers, Sequences, FiniteSets, TLC

VARIABLES
    pc,      \* position: before construction, between methods, in the loop
    args,    \* the arguments the caller passes
    self,    \* the Pearls object's fields
    idx,     \* run_algorithm's loop variable
    log,     \* the stages run_algorithm has called for the current sample
    locals,  \* the local variables of the method that ran last
    ret      \* the value returned to the caller

vars == <<pc, args, self, idx, log, locals, ret>>

----------------------------------------------------------------------------
(* Bounds of the model *)

\* short signals have 1..ShortL samples
ShortL == 3
\* the long signal has WarmUp + 2 + LongExtra samples
LongExtra == 1

----------------------------------------------------------------------------
(* Python and numpy helpers *)

Max2(a, b) == IF a >= b THEN a ELSE b
Min2(a, b) == IF a <= b THEN a ELSE b

\* A slice bound as Python clips it against a length n.
ClipIndex(i, n) == IF i < 0 THEN Max2(i + n, 0) ELSE Min2(i, n)

\* x[start:stop] of a 0-based Python sequence held as a TLA+ sequence.
PySlice(x, start, stop) ==
    LET a == ClipIndex(start, Len(x))
        b == ClipIndex(stop, Len(x))
    IN  IF a >= b THEN <<>> ELSE SubSeq(x, a + 1, b)

\* np.arange(n): empty when n <= 0.
Arange(n) == [i \in 1..Max2(n, 0) |-> i - 1]

\* np.pad(x, (before, 0), "constant") of a column vector held as a 2-D
\* array: the pair (before, after) is applied to BOTH axes.
PadBefore2D(col, before) ==
    [i \in 1..(Len(col) + before) |->
        [j \in 1..(1 + before) |->
            IF i > before /\ j = before + 1 THEN col[i - before] ELSE 0]]

----------------------------------------------------------------------------
(* Exact-zero tracking of floating-point values *)

AbsOf(x) == IF x = 0 THEN "Z" ELSE "N"
AMul(x, y) == IF x = "Z" \/ y = "Z" THEN "Z" ELSE "N"
AAdd(x, y) == IF x = "Z" /\ y = "Z" THEN "Z" ELSE "N"
AllZ(v) == \A i \in DOMAIN v : v[i] = "Z"
AVec(n, x) == [i \in 1..n |-> x]

----------------------------------------------------------------------------
(* Program constants *)

\* ps = np.array([100, 278.2, 300, 400, 500]), in tenths of a hertz
ps == <<1000, 2782, 3000, 4000, 5000>>

\* if idx > 50: self._rls_update()
WarmUp == 50

\* if idx % 100 == 0: self.dictionary_update()
DictPeriod == 100

\* np.log(0.01): influence below 1/WindowFloor
WindowFloor == 100

\* self.norm_thresh = 0.01 = 1/NormThreshInv
NormThreshInv == 100

\* arr > 0.05 * arr[1:-1].max(): 0.05 = 1/PeakFloorInv
PeakFloorInv == 20

----------------------------------------------------------------------------
(* Pearls.__init__ *)

\* int(np.floor(K_msecs * 1e-3 * fs))
KOf(K_msecs, fs) == (K_msecs * fs) \div 1000

Pearls__init__(a) ==
    [ s |-> a.signal, L |-> Len(a.signal),
      lambda_ |-> a.lambda_, xi |-> a.xi, H |-> a.H, fs |-> a.fs,
      K |-> KOf(a.K_msecs, a.fs),
      p1 |-> "N", p2 |-> "N", ss |-> "N", mgi |-> a.mgi, mu |-> "N",
      norm_thresh |-> <<1, NormThreshInv>> ]

----------------------------------------------------------------------------
(* _get_window_length: int(np.log(0.01) / np.log(lambda_)) for the rational *)
(* lambda_ = <<num, den>>.  For 0 < lambda_ < 1 the quotient truncates to   *)
(* the largest D with lambda_^D >= 0.01; for lambda_ > 1 it is negative and *)
(* truncates towards zero; log(1) = 0 makes it -inf, log of a negative      *)
(* number nan, and int() raises on both; log(0) = -inf gives 0.             *)

RECURSIVE LargestPower(_, _, _)
\* the largest D >= d with big^D <= WindowFloor * small^D, for big > small > 0
LargestPower(big, small, d) ==
    IF big ^ (d + 1) <= WindowFloor * small ^ (d + 1)
    THEN LargestPower(big, small, d + 1)
    ELSE d

_get_window_length(lam) ==
    LET num == lam[1]
        den == lam[2]
    IN  [ ok |-> ~(num = den \/ num < 0),
          value |-> IF num <= 0 \/ num = den THEN 0
                    ELSE IF num < den THEN LargestPower(den, num, 0)
                    ELSE 0 - LargestPower(num, den, 0) ]

----------------------------------------------------------------------------
(* Pearls._Gp: the coefficient indices of pitch p (as 1-based positions) *)

_Gp(slf, p) == [h \in 1..slf.H |-> slf.H * p + h]

----------------------------------------------------------------------------
(* Pearls.initialize_variables.  The basis window A is held as the time    *)
(* index of each of its rows (row for time t[i] is exp(2*pi*j*f_mat*t[i])), *)
(* the basis vector a as the time index it was evaluated at.               *)

initialize_variables(slf) ==
    LET P == Len(ps)
        f_mat == [p \in 1..P |-> [h \in 1..slf.H |-> h * ps[p]]]
        s1 == [ P |-> P, f_mat |-> f_mat, f_active |-> [p \in 1..P |-> TRUE] ] @@ slf
        window == _get_window_length(slf.lambda_)
        Delta == window.value
        Lambda_ == [i \in 1..Max2(Delta, 0) |-> Delta - i]
        t == Arange(slf.L + slf.K)
        tvec == PySlice(t, 0, slf.K)
        s2 == [ Delta |-> Delta, Lambda_ |-> Lambda_, t |-> t,
                t_stop |-> slf.K, tvec |-> tvec ] @@ s1
        n_coef == P * slf.H
        s3 == [ A |-> tvec, a |-> tvec[Len(tvec)],
                R |-> [i \in 1..n_coef |-> AVec(n_coef, "N")],
                r |-> AVec(n_coef, AbsOf(slf.s[1])),
                rls |-> AVec(n_coef, "Z"),
                w_hat |-> AVec(n_coef, "Z"),
                act |-> {p \in 0..(P - 1) : TRUE},
                rls_hist |-> [i \in 1..slf.L |-> AVec(n_coef, "Z")],
                w_hat_hist |-> [i \in 1..slf.L |-> AVec(n_coef, "Z")],
                freq_hist |-> [i \in 1..slf.L |-> [p \in 1..P |-> 0]],
                p1_hist |-> [i \in 1..slf.L |-> "Z"],
                p2_hist |-> [i \in 1..slf.L |-> "Z"] ] @@ s2
    IN  IF ~window.ok THEN [ok |-> FALSE, self |-> s1]
        ELSE IF Len(tvec) = 0 \/ slf.L = 0 THEN [ok |-> FALSE, self |-> s2]
        ELSE [ok |-> TRUE, self |-> s3]

----------------------------------------------------------------------------
(* Pearls._increment_time_vars *)

_increment_time_vars(slf) ==
    [slf EXCEPT !.t_stop = slf.t_stop + 1,
                !.tvec = PySlice(slf.t, slf.t_stop + 1 - slf.K, slf.t_stop + 1)]

\* the frequencies scaled in place instead of in the exponent's temporary
_update_a_scaling_f_mat(slf) ==
    LET tval == slf.t[slf.t_stop]
    IN  [slf EXCEPT !.a = tval,
                    !.A = Append(Tail(slf.A), tval),
                    !.f_mat = [p \in DOMAIN slf.f_mat |->
                                  [h \in DOMAIN slf.f_mat[p] |-> slf.f_mat[p][h] * tval]]]

(* Pearls._update_a, the branch run_algorithm takes (fs_updated = False):  *)
(* a is evaluated at t[t_stop - 1], the window is rolled by one row and    *)
(* its last row overwritten.                                               *)
_update_a(slf) ==
    LET tval == slf.t[slf.t_stop]
    IN  [slf EXCEPT !.a = tval,
                    !.A = Append(Tail(slf.A), tval)]

\* the sample factor dropped: r = lambda * r + conj(a)
_update_r_without_sample(slf, s_val) ==
    [slf EXCEPT
        !.R = [i \in DOMAIN slf.R |-> [j \in DOMAIN slf.R[i] |-> "N"]],
        !.r = [i \in DOMAIN slf.r |-> "N"]]

(* Pearls._update_r *)
_update_r(slf, s_val) ==
    LET lam == AbsOf(slf.lambda_[1])
    IN  [slf EXCEPT
            !.R = [i \in DOMAIN slf.R |->
                      [j \in DOMAIN slf.R[i] |-> AAdd(AMul(lam, slf.R[i][j]), "N")]],
            !.r = [i \in DOMAIN slf.r |->
                      AAdd(AMul(lam, slf.r[i]), AMul(AbsOf(s_val), "N"))]]

----------------------------------------------------------------------------
(* Pearls._penalty_parameter_update.  The matrix products raise when the   *)
(* shapes disagree; the infinity norm of an array with no rows raises.     *)

_penalty_parameter_update(slf, stop_idx) ==
    LET A_win == PySlice(slf.A, 0 - slf.Delta, Len(slf.A))
        s_col == PySlice(slf.s, stop_idx - slf.Delta, stop_idx)
        s_win == PadBefore2D(s_col, Max2(0, slf.Delta - Len(s_col)))
        n == Len(slf.Lambda_)
        ok == /\ n = Len(A_win)
              /\ n = Len(s_win)
              /\ slf.P * slf.H > 0
        zero == \A i \in DOMAIN s_win : \A j \in DOMAIN s_win[i] : s_win[i][j] = 0
        eta == AMul(slf.mu, IF zero THEN "Z" ELSE "N")
    IN  [ ok |-> ok,
          self |-> IF ok THEN [slf EXCEPT !.p1 = AMul("N", eta), !.p2 = AMul("N", eta)]
                   ELSE slf,
          locals |-> [A_win |-> A_win, s_win |-> s_win, eta |-> eta] ]

----------------------------------------------------------------------------
(* _S1, _S2, _group_penalty_parameter and Pearls._gradient_descent.  A     *)
(* shrink multiplies its argument by mval / (mval + alpha + 1e-10), whose  *)
(* denominator is max(alpha, 0) + 1e-10 > 0 when the argument is zero.     *)

_S1(arr, alpha) == [i \in DOMAIN arr |-> AMul("N", arr[i])]

_S2(arr, alpha) == [i \in DOMAIN arr |-> AMul("N", arr[i])]

_group_penalty_parameter(w_hat_p, p2) == AMul(p2, "N")

gradient_iteration(slf) ==
    LET Rw == IF AllZ(slf.w_hat) THEN "Z" ELSE "N"
        v == [i \in DOMAIN slf.w_hat |->
                 AAdd(slf.w_hat[i], AMul(slf.ss, AAdd(slf.r[i], Rw)))]
        vth == _S1(v, AMul(slf.ss, slf.p1))
        group(p) == [h \in 1..slf.H |-> vth[_Gp(slf, p)[h]]]
        shrunk(p) == _S2(group(p), AMul(slf.ss, _group_penalty_parameter(group(p), slf.p2)))
    IN  [slf EXCEPT !.w_hat =
            [i \in DOMAIN slf.w_hat |->
                shrunk((i - 1) \div slf.H)[((i - 1) % slf.H) + 1]]]

RECURSIVE gradient_loop(_, _)
gradient_loop(slf, n) ==
    IF n <= 0 THEN slf ELSE gradient_loop(gradient_iteration(slf), n - 1)

_gradient_descent(slf) == gradient_loop(slf, slf.mgi)

----------------------------------------------------------------------------
(* Pearls._find_active_set under exact-zero tracking: a group whose norm   *)
(* is exactly zero cannot exceed norm_thresh, any other group may.         *)

_find_active_set_run(slf) ==
    LET zero(p) == \A h \in 1..slf.H : slf.w_hat[_Gp(slf, p)[h]] = "Z"
    IN  [slf EXCEPT !.act = {p \in 0..(slf.P - 1) : ~zero(p)}]

(* Pearls._rls_update under exact-zero tracking: groups outside the active *)
(* set are written with zeros, the others with the solve's result.         *)
_rls_update_run(slf) ==
    [slf EXCEPT !.rls =
        [i \in DOMAIN slf.rls |->
            IF ((i - 1) \div slf.H) \in slf.act THEN "N" ELSE "Z"]]

(* Pearls.dictionary_update: computes the locals rls_mat, norms, max_norm, *)
(* sig_pitches and H, and assigns no field.                                *)
dictionary_update_run(slf) == slf

(* Pearls._save_history *)
_save_history(slf, i) ==
    [slf EXCEPT !.w_hat_hist[i + 1] = slf.w_hat,
                !.freq_hist[i + 1] = [p \in 1..slf.P |-> slf.f_mat[p][1]],
                !.rls_hist[i + 1] = slf.rls,
                !.p1_hist[i + 1] = slf.p1,
                !.p2_hist[i + 1] = slf.p2]

----------------------------------------------------------------------------
(* Pearls.run_algorithm: the order in which one pass of the loop body     *)
(* calls the stages, and the two conditions on idx.                        *)
(*   "penalty" _penalty_parameter_update    "time"  _increment_time_vars   *)
(*   "basis"   _update_a                    "cov"   _update_r              *)
(*   "gd"      _gradient_descent            "prune" _find_active_set       *)
(*   "rls"     _rls_update                  "dict"  dictionary_update      *)
(*   "save"    _save_history                                               *)

AfterRls(i) == IF i % DictPeriod = 0 THEN "dict" ELSE "save"

\* the swap a reading of the loop as "basis, covariance, penalty" would make
NextStage_penalty_after_covariance(stage, i) ==
    CASE stage = "loop"    -> "time"
      [] stage = "time"    -> "basis"
      [] stage = "basis"   -> "cov"
      [] stage = "cov"     -> "penalty"
      [] stage = "penalty" -> "gd"
      [] stage = "gd"      -> "prune"
      [] stage = "prune"   -> IF i > WarmUp THEN "rls" ELSE AfterRls(i)
      [] stage = "rls"     -> AfterRls(i)
      [] stage = "dict"    -> "save"

\* the warm-up test off by one: idx >= 50
NextStage_rls_one_sample_early(stage, i) ==
    CASE stage = "loop"    -> "penalty"
      [] stage = "penalty" -> "time"
      [] stage = "time"    -> "basis"
      [] stage = "basis"   -> "cov"
      [] stage = "cov"     -> "gd"
      [] stage = "gd"      -> "prune"
      [] stage = "prune"   -> IF i >= WarmUp THEN "rls" ELSE AfterRls(i)
      [] stage = "rls"     -> AfterRls(i)
      [] stage = "dict"    -> "save"

NextStage(stage, i) ==
    CASE stage = "loop"    -> "penalty"
      [] stage = "penalty" -> "time"
      [] stage = "time"    -> "basis"
      [] stage = "basis"   -> "cov"
      [] stage = "cov"     -> "gd"
      [] stage = "gd"      -> "prune"
      [] stage = "prune"   -> IF i > WarmUp THEN "rls" ELSE AfterRls(i)
      [] stage = "rls"     -> AfterRls(i)
      [] stage = "dict"    -> "save"

\* the stage calls of the current sample, in call order
Called(stage) ==
    IF log # <<>> /\ log[Len(log)] = "save" THEN <<stage>> ELSE Append(log, stage)

----------------------------------------------------------------------------
(* Inputs *)

Zero(L) == [i \in 1..L |-> 0]
Ramp(L) == [i \in 1..L |-> i]
Onset(L) == [i \in 1..L |-> IF i <= 2 THEN 0 ELSE i]

Lengths == (1..ShortL) \cup {WarmUp + 2 + LongExtra}

Signals == UNION {{Zero(L), Ramp(L), Onset(L)} : L \in Lengths}

\* forgetting factors as <<numerator, denominator>>: two valid ones, 1 and 3/2
Lambdas == {<<1, 4>>, <<1, 2>>, <<1, 1>>, <<3, 2>>}

Configurations ==
    [ signal : Signals, lambda_ : Lambdas, xi : {-1, 1}, H : {0, 1, 2},
      fs : {0, 1000}, K_msecs : {2, 7}, mgi : {1, 2} ]

\* lambda in (0,1), fs, H and xi positive
ValidConfiguration(a) ==
    /\ 0 < a.lambda_[1] /\ a.lambda_[1] < a.lambda_[2]
    /\ a.fs > 0 /\ a.H > 0 /\ a.xi > 0

----------------------------------------------------------------------------
(* The run: construction, initialize_variables, run_algorithm *)

NoValue == <<>>

Init ==
    /\ pc = "new"
    /\ args \in Configurations
    /\ self = NoValue
    /\ idx = 0
    /\ log = <<>>
    /\ locals = NoValue
    /\ ret = NoValue

Construct ==
    /\ pc = "new"
    /\ self' = Pearls__init__(args)
    /\ pc' = "constructed"
    /\ UNCHANGED <<args, idx, log, locals, ret>>

InitializeVariables ==
    /\ pc = "constructed"
    /\ LET res == initialize_variables(self)
       IN  /\ self' = res.self
           /\ pc' = IF res.ok THEN "ready" ELSE "error"
    /\ UNCHANGED <<args, idx, log, locals, ret>>

RunAlgorithm ==
    /\ pc = "ready"
    /\ idx' = 0
    /\ pc' = IF self.L > 0 THEN NextStage("loop", 0) ELSE "return"
    /\ UNCHANGED <<args, self, log, locals, ret>>

PenaltyParameterUpdate ==
    /\ pc = "penalty"
    /\ LET res == _penalty_parameter_update(self, idx + 1)
       IN  /\ self' = res.self
           /\ locals' = res.locals
           /\ pc' = IF res.ok THEN NextStage("penalty", idx) ELSE "error"
    /\ log' = Called("penalty")
    /\ UNCHANGED <<args, idx, ret>>

Stage(stage, after) ==
    /\ pc = stage
    /\ self' = after
    /\ pc' = NextStage(stage, idx)
    /\ log' = Called(stage)
    /\ UNCHANGED <<args, idx, locals, ret>>

IncrementTimeVars == Stage("time", _increment_time_vars(self))
UpdateA == Stage("basis", _update_a(self))
UpdateR == Stage("cov", _update_r(self, self.s[idx + 1]))
GradientDescent == Stage("gd", _gradient_descent(self))
FindActiveSet == Stage("prune", _find_active_set_run(self))
RlsUpdate == Stage("rls", _rls_update_run(self))
DictionaryUpdate == Stage("dict", dictionary_update_run(self))

SaveHistory ==
    /\ pc = "save"
    /\ self' = _save_history(self, idx)
    /\ log' = Called("save")
    /\ IF idx + 1 < self.L
       THEN idx' = idx + 1 /\ pc' = NextStage("loop", idx + 1)
       ELSE idx' = idx /\ pc' = "return"
    /\ UNCHANGED <<args, locals, ret>>

Return ==
    /\ pc = "return"
    /\ ret' = [ w_hat_hist |-> self.w_hat_hist, freq_hist |-> self.freq_hist,
                p1_hist |-> self.p1_hist, p2_hist |-> self.p2_hist,
                rls_hist |-> self.rls_hist ]
    /\ pc' = "done"
    /\ UNCHANGED <<args, self, idx, log, locals>>

Next ==
    \/ Construct
    \/ InitializeVariables
    \/ RunAlgorithm
    \/ PenaltyParameterUpdate
    \/ IncrementTimeVars
    \/ UpdateA
    \/ UpdateR
    \/ GradientDescent
    \/ FindActiveSet
    \/ RlsUpdate
    \/ DictionaryUpdate
    \/ SaveHistory
    \/ Return

Spec == Init /\ [][Next]_vars

----------------------------------------------------------------------------
(* Pearls._find_active_set, exactly.  A weight is an integer number of     *)
(* half thresholds (1 stands for norm_thresh / 2 = 0.005), a group's norm  *)
(* is compared through its square:                                         *)
(*   norms < norm_thresh * max_norm  iff  NormThreshInv^2 * sq < max_sq    *)
(*   norms > norm_thresh             iff  sq > 2 * 2                       *)
(* norms and max_norm are computed once, before any group is zeroed.       *)

RECURSIVE SumOf(_)
SumOf(v) == IF v = <<>> THEN 0 ELSE v[1] + SumOf(Tail(v))

group_sq(slf, w, p) == SumOf([h \in 1..slf.H |-> w[_Gp(slf, p)[h]] * w[_Gp(slf, p)[h]]])

MaxOf(S) == CHOOSE m \in S : \A x \in S : x <= m

Pitches(slf) == 0..(slf.P - 1)

below_relative(slf, p) ==
    LET max_sq == MaxOf({group_sq(slf, slf.w_hat, q) : q \in Pitches(slf)})
    IN  NormThreshInv * NormThreshInv * group_sq(slf, slf.w_hat, p) < max_sq

above_threshold(slf, p) == group_sq(slf, slf.w_hat, p) > 2 * 2

_find_active_set(slf) ==
    [slf EXCEPT
        !.w_hat = [i \in DOMAIN slf.w_hat |->
                      IF below_relative(slf, (i - 1) \div slf.H) THEN 0 ELSE slf.w_hat[i]],
        !.act = {p \in Pitches(slf) : above_threshold(slf, p)}]

----------------------------------------------------------------------------
(* Prune applied to weight vectors drawn from a bounded set *)

\* how many times in a row the routine is applied
MaxCalls == 2

\* 0, 0.005 (below norm_thresh), 0.015 and 2.0
WeightValues == {0, 1, 3, 400}

WeightInputs(H) ==
    {w \in [1..(Len(ps) * H) -> WeightValues] :
        \A i \in 1..(Len(ps) * H) : ((i - 1) % H) > 0 => w[i] \in {0, 3}}

InitPrune ==
    /\ pc = "prune_in"
    /\ \E H \in {1, 2} : \E w \in WeightInputs(H) :
          /\ args = [H |-> H, w_hat |-> w]
          /\ self = [P |-> Len(ps), H |-> H, w_hat |-> w, act |-> 0..(Len(ps) - 1)]
    /\ idx = 0
    /\ log = <<>>
    /\ locals = NoValue
    /\ ret = NoValue

ApplyFindActiveSet ==
    /\ pc = "prune_in"
    /\ idx < MaxCalls
    /\ self' = _find_active_set(self)
    /\ locals' = [before |-> self]
    /\ idx' = idx + 1
    /\ UNCHANGED <<pc, args, log, ret>>

SpecPrune == InitPrune /\ [][ApplyFindActiveSet]_vars

----------------------------------------------------------------------------
(* Exact arithmetic for _rls_update: a rational is <<numerator,            *)
(* denominator>> in lowest terms with a positive denominator.              *)

RECURSIVE Gcd(_, _)
Gcd(a, b) == IF b = 0 THEN a ELSE Gcd(b, a % b)

AbsInt(a) == IF a < 0 THEN 0 - a ELSE a

Rat(n, d) ==
    LET g == Gcd(AbsInt(n), AbsInt(d))
        sgn == IF d < 0 THEN 0 - 1 ELSE 1
    IN  <<sgn * (n \div g), sgn * (d \div g)>>

RInt(k) == <<k, 1>>

\* sums over the least common denominator, products after cross-cancelling
RAdd(x, y) ==
    LET g == Gcd(x[2], y[2])
    IN  Rat(x[1] * (y[2] \div g) + y[1] * (x[2] \div g), (x[2] \div g) * y[2])

RNeg(x) == <<0 - x[1], x[2]>>
RSub(x, y) == RAdd(x, RNeg(y))

RMul(x, y) ==
    LET a == Rat(x[1], y[2])
        b == Rat(y[1], x[2])
    IN  <<a[1] * b[1], a[2] * b[2]>>

RDiv(x, y) == RMul(x, Rat(y[2], y[1]))

RECURSIVE RSum(_)
RSum(v) == IF v = <<>> THEN RInt(0) ELSE RAdd(v[1], RSum(Tail(v)))

RECURSIVE RProd(_)
RProd(v) == IF v = <<>> THEN RInt(1) ELSE RMul(v[1], RProd(Tail(v)))

\* the sign of a permutation: the parity of its inversions
Sign(sigma) ==
    LET inversions == {c \in (DOMAIN sigma) \X (DOMAIN sigma) :
                          c[1] < c[2] /\ sigma[c[1]] > sigma[c[2]]}
    IN  IF Cardinality(inversions) % 2 = 0 THEN 1 ELSE 0 - 1

RECURSIVE RSumOfTerms(_)
\* the sum of the second components of a set of pairs
RSumOfTerms(T) ==
    IF T = {} THEN RInt(0)
    ELSE LET t == CHOOSE u \in T : TRUE
         IN  RAdd(t[2], RSumOfTerms(T \ {t}))

\* determinant of a square matrix of rationals, summed over the permutations
\* of its columns
Det(M) ==
    RSumOfTerms({<<sigma, RMul(RInt(Sign(sigma)),
                               RProd([i \in 1..Len(M) |-> M[i][sigma[i]]]))>> :
                    sigma \in Permutations(1..Len(M))})

\* np.linalg.inv(M) @ col, by Cramer's rule
InvTimes(M, col) ==
    [i \in 1..Len(M) |->
        RDiv(Det([k \in 1..Len(M) |->
                    [j \in 1..Len(M) |-> IF j = i THEN col[k] ELSE M[k][j]]]),
             Det(M))]

----------------------------------------------------------------------------
(* Pearls._rls_update, exactly.  R and r hold integers, rls rationals.     *)
(* `order` is the order in which the loop of lines 201-210 visits the      *)
(* active pitches; np.argwhere lists them in ascending order.              *)

\* Gauss-Seidel: reading the array the loop is writing
rls_read_in_place(t_rls, rls_now) == rls_now

\* the estimate the cross term and the smoothing term read: t_rls, the copy
\* taken before the loop (line 199), not the array the loop writes
rls_read(t_rls, rls_now) == t_rls

\* rls[gp] for one active pitch p (lines 202-210)
rls_group(slf, t_rls, rls_now, p) ==
    LET gp == _Gp(slf, p)
        S == {_Gp(slf, q)[h] : q \in slf.act, h \in 1..slf.H}
        qp == S \ {gp[h] : h \in 1..slf.H}
        src == rls_read(t_rls, rls_now)
        cross(h) == RSum([k \in 1..Len(slf.r) |->
                            IF k \in qp THEN RMul(RInt(slf.R[gp[h]][k]), src[k])
                            ELSE RInt(0)])
        rp == [h \in 1..slf.H |-> RSub(RInt(slf.r[gp[h]]), cross(h))]
        M == [h \in 1..slf.H |->
                [g \in 1..slf.H |->
                    RInt(slf.R[gp[h]][gp[g]] + (IF h = g THEN slf.xi ELSE 0))]]
        col_part == [h \in 1..slf.H |-> RAdd(rp[h], RMul(RInt(slf.xi), src[gp[h]]))]
    IN  InvTimes(M, col_part)

RECURSIVE rls_loop(_, _, _, _)
rls_loop(slf, t_rls, rls_now, order) ==
    IF order = <<>> THEN rls_now
    ELSE LET p == order[1]
             x == rls_group(slf, t_rls, rls_now, p)
             written == [i \in DOMAIN rls_now |->
                            IF (i - 1) \div slf.H = p
                            THEN x[((i - 1) % slf.H) + 1] ELSE rls_now[i]]
         IN  rls_loop(slf, t_rls, written, Tail(order))

\* lines 212-215: the groups outside the active set are zeroed
rls_zero_inactive(slf, rls_now) ==
    [i \in DOMAIN rls_now |->
        IF ((i - 1) \div slf.H) \in slf.act THEN rls_now[i] ELSE RInt(0)]

rls_update_in_order(slf, order) ==
    [slf EXCEPT !.rls = rls_zero_inactive(slf, rls_loop(slf, slf.rls, slf.rls, order))]

RECURSIVE Ascending(_)
Ascending(S) ==
    IF S = {} THEN <<>>
    ELSE LET m == CHOOSE x \in S : \A y \in S : x <= y
         IN  <<m>> \o Ascending(S \ {m})

_rls_update(slf) == rls_update_in_order(slf, Ascending(slf.act))

----------------------------------------------------------------------------
(* RLS refinement applied to inputs drawn from bounded sets *)

\* R and r as _update_r accumulates them, from two basis vectors whose entries
\* have modulus 1 (here 1 and -1) and two samples:
\*   R = v1 v1' + w * v2 v2'      r = s1 * v1 + w * s2 * v2
BasisInput(m, i) == IF ((i - 1) \div m) % 2 = 0 THEN 1 ELSE 0 - 1

CovInput(n, w) ==
    [i \in 1..n |-> [j \in 1..n |->
        BasisInput(1, i) * BasisInput(1, j) + w * BasisInput(2, i) * BasisInput(2, j)]]

CorrInput(n, w, s1, s2) ==
    [i \in 1..n |-> s1 * BasisInput(1, i) + w * s2 * BasisInput(2, i)]

EstimateInput(n, k) == [i \in 1..n |-> RInt((i * k) % 2)]

InitRls ==
    /\ pc = "rls_in"
    /\ \E H \in {1, 2}, xi \in {1, 2}, w \in {1, 2}, s2 \in {0, 1}, k \in {0, 1},
          act \in SUBSET (0..(Len(ps) - 1)) :
          /\ args = [H |-> H, xi |-> xi]
          /\ self = [ P |-> Len(ps), H |-> H, xi |-> xi,
                      R |-> CovInput(Len(ps) * H, w),
                      r |-> CorrInput(Len(ps) * H, w, 1, s2),
                      rls |-> EstimateInput(Len(ps) * H, k),
                      act |-> act ]
    /\ idx = 0
    /\ log = <<>>
    /\ locals = NoValue
    /\ ret = NoValue

ApplyRlsUpdate ==
    /\ pc = "rls_in"
    /\ idx < MaxCalls
    /\ self' = _rls_update(self)
    /\ locals' = [before |-> self]
    /\ idx' = idx + 1
    /\ UNCHANGED <<pc, args, log, ret>>

SpecRls == InitRls /\ [][ApplyRlsUpdate]_vars

----------------------------------------------------------------------------
(* src/dictionary_update.py.  pitch_norms is held as the squares of the    *)
(* norms (squaring keeps the order of non-negative numbers):               *)
(*   arr[i] > arr[j]                    iff  sq[i] > sq[j]                 *)
(*   arr[i] > 0.05 * arr[1:-1].max()    iff  PeakFloorInv^2 * sq[i] > max  *)

\* np.linalg.norm(rls_filter.reshape(H, P, order="F"), axis=0), squared:
\* column p of the reshaped array is rls_filter[H*p : H*(p+1)]
pitch_norms_sq(rls_filter, H, P) ==
    [p \in 1..P |-> SumOf([h \in 1..H |->
                        rls_filter[H * (p - 1) + h] * rls_filter[H * (p - 1) + h]])]

\* arr[1:-1].max() raises on an empty slice
find_peak_raises(arr) == PySlice(arr, 1, 0 - 1) = <<>>

\* the floor taken from the whole array, ends included
_find_peak_locations_floor_of_all(arr) ==
    LET n == Len(arr)
        rising == <<FALSE>> \o [i \in 1..(n - 1) |-> arr[i + 1] > arr[i]]
        falling == [i \in 1..(n - 1) |-> arr[i] > arr[i + 1]] \o <<FALSE>>
        top == MaxOf({arr[i] : i \in DOMAIN arr})
    IN  [i \in 1..n |->
            rising[i] /\ falling[i] /\ PeakFloorInv * PeakFloorInv * arr[i] > top]

_find_peak_locations(arr) ==
    LET n == Len(arr)
        rising == <<FALSE>> \o [i \in 1..(n - 1) |-> arr[i + 1] > arr[i]]
        falling == [i \in 1..(n - 1) |-> arr[i] > arr[i + 1]] \o <<FALSE>>
        is_peak == [i \in 1..n |-> rising[i] /\ falling[i]]
        interior == PySlice(arr, 1, 0 - 1)
        top == MaxOf({interior[i] : i \in DOMAIN interior})
    IN  [i \in 1..n |-> is_peak[i] /\ PeakFloorInv * PeakFloorInv * arr[i] > top]

dictionary_update(a) ==
    LET norms == pitch_norms_sq(a.rls_filter, a.max_num_harmonics, a.num_pitch_candidates)
        peak_locations == _find_peak_locations(norms)
        unchanged == [ batch |-> a.batch, batch_exponent |-> a.batch_exponent,
                       batch_exponent_no_phase |-> a.batch_exponent_no_phase,
                       prev_batch |-> a.prev_batch,
                       pitch_candidates |-> a.pitch_candidates,
                       rls_filter |-> a.rls_filter ]
    IN  IF find_peak_raises(norms)
        THEN [at |-> "error", ret |-> NoValue, locals |-> [pitch_norms |-> norms]]
        ELSE IF \A i \in DOMAIN peak_locations : ~peak_locations[i]
        THEN [at |-> "returned", ret |-> unchanged,
              locals |-> [pitch_norms |-> norms, peak_locations |-> peak_locations]]
        ELSE [at |-> "breakpoint", ret |-> NoValue,
              locals |-> [pitch_norms |-> norms, peak_locations |-> peak_locations]]

----------------------------------------------------------------------------
(* The grid refinement applied to filters drawn from a bounded set *)

\* the largest number of pitch candidates
MaxPitches == 5

FilterValues == {0, 1, 2, 50}

FilterInputs(H, P) ==
    {f \in [1..(H * P) -> FilterValues] :
        \A i \in 1..(H * P) : ((i - 1) % H) > 0 => f[i] \in {0, 2}}

InitDict ==
    /\ pc = "dict_in"
    /\ \E H \in {1, 2}, P \in 2..MaxPitches : \E f \in FilterInputs(H, P) :
          args = [ rls_filter |-> f, max_num_harmonics |-> H,
                   num_pitch_candidates |-> P,
                   pitch_candidates |-> [p \in 1..P |-> ps[((p - 1) % Len(ps)) + 1]],
                   batch |-> "batch", batch_exponent |-> "batch_exponent",
                   batch_exponent_no_phase |-> "batch_exponent_no_phase",
                   prev_batch |-> "prev_batch" ]
    /\ self = NoValue
    /\ idx = 0
    /\ log = <<>>
    /\ locals = NoValue
    /\ ret = NoValue

CallDictionaryUpdate ==
    /\ pc = "dict_in"
    /\ LET res == dictionary_update(args)
       IN  /\ pc' = res.at
           /\ ret' = res.ret
           /\ locals' = res.locals
    /\ UNCHANGED <<args, self, idx, log>>

SpecDict == InitDict /\ [][CallDictionaryUpdate]_vars

----------------------------------------------------------------------------
(* Properties *)

LoopStages == {"penalty", "time", "basis", "cov", "gd", "prune", "rls", "dict", "save"}

\* the object has been initialized and no method has raised
Running == pc \in LoopStages \cup {"return", "done"}

SampleDone == log # <<>> /\ log[Len(log)] = "save"

\* the sample the stages in `log` belong to
Sample == IF SampleDone THEN self.t_stop - self.K - 1 ELSE idx

\* the number of samples whose history has been written
Saved == IF pc \in {"return", "done"} THEN self.L ELSE idx

Ran(stage) == \E k \in DOMAIN log : log[k] = stage

IsPrefix(u, v) == Len(u) <= Len(v) /\ \A k \in DOMAIN u : u[k] = v[k]

Maybe(cond, stage) == IF cond THEN <<stage>> ELSE <<>>

\* the order of the calls in the loop body of run_algorithm
CodeOrder(i) ==
    <<"penalty", "time", "basis", "cov", "gd", "prune">>
        \o Maybe(i > WarmUp, "rls") \o Maybe(i % DictPeriod = 0, "dict") \o <<"save">>

\* the order the specification gives
SpecOrder(i) ==
    <<"time", "basis", "cov", "penalty", "gd", "prune">>
        \o Maybe(i > WarmUp, "rls") \o Maybe(i % DictPeriod = 0, "dict") \o <<"save">>

\* C1, as stated: every sample runs basis update, covariance update, penalty
\* update, sparse solve, prune, (RLS), (dictionary update), history append in
\* this order, and the penalty update reads the basis window already shifted
\* for its sample (its last row is the row of the sample's time).
C1_PenaltyAfterBasisAndCovariance ==
    (Running /\ log # <<>> /\ ValidConfiguration(args)) =>
        /\ IsPrefix(log, SpecOrder(Sample))
        /\ (Ran("penalty") /\ locals.A_win # <<>>) =>
               locals.A_win[Len(locals.A_win)] = self.K + Sample

\* C1, amended: every sample runs penalty update, time increment and basis
\* update, covariance update, sparse solve, prune, (RLS when idx > 50),
\* (dictionary update when idx % 100 = 0), history append in this order, and
\* the penalty update reads the basis window before it is shifted for its
\* sample (its last row is the row of the time one step earlier).
C1_PenaltyBeforeBasis ==
    (Running /\ log # <<>>) =>
        /\ IsPrefix(log, CodeOrder(Sample))
        /\ (Ran("penalty") /\ locals.A_win # <<>>) =>
               locals.A_win[Len(locals.A_win)] = self.K + Sample - 1

\* a sample past the warm-up has run all its stages, its penalty update
\* having read a window with rows
C1_Witness ==
    /\ Running /\ SampleDone /\ Ran("rls") /\ Ran("penalty")
    /\ locals.A_win # <<>>
    /\ Sample > 0

----------------------------------------------------------------------------
\* C2, as stated: after prune a group is zero exactly when its norm was below
\* norm_thresh * max_norm (every other group keeps its weights), and the
\* active set is exactly the set of the groups that were not pruned.
C2_ActiveSetIsTheUnprunedGroups ==
    (pc = "prune_in" /\ idx >= 1) =>
        LET before == locals.before
            pruned == {p \in Pitches(before) : below_relative(before, p)}
        IN  /\ \A i \in DOMAIN self.w_hat :
                   self.w_hat[i] = IF ((i - 1) \div before.H) \in pruned
                                   THEN 0 ELSE before.w_hat[i]
            /\ self.act = Pitches(before) \ pruned

\* C3, as stated: a second prune, applied to what the first left, changes
\* neither the weights nor the active set.
C3_PruneIdempotent ==
    (pc = "prune_in" /\ idx >= 2) =>
        /\ self.w_hat = locals.before.w_hat
        /\ self.act = locals.before.act

----------------------------------------------------------------------------
ZeroSignal == \A i \in DOMAIN args.signal : args.signal[i] = 0

\* C4: when every sample is zero, the weights and the RLS estimate are exactly
\* zero in every coordinate at every point of the run, so are the histories
\* recorded for every sample, and the active set is empty once a prune has run.
C4_ZeroSignalZeroOutput ==
    (Running /\ ZeroSignal) =>
        /\ AllZ(self.w_hat)
        /\ AllZ(self.rls)
        /\ \A i \in 1..self.L : AllZ(self.w_hat_hist[i]) /\ AllZ(self.rls_hist[i])
        /\ (idx > 0 \/ Ran("prune")) => self.act = {}

\* a zero signal run to the end, past the warm-up
C4_Witness ==
    /\ pc = "done" /\ ZeroSignal
    /\ self.L > WarmUp + 1
    /\ self.H > 0
    /\ ret.rls_hist = self.rls_hist

----------------------------------------------------------------------------
CountOf(stage) == Cardinality({k \in DOMAIN log : log[k] = stage})

\* C5: for idx <= 50 _rls_update is not called and the RLS estimate recorded
\* is the initial zero vector; for idx > 50 it is called exactly once, after
\* the prune of the sample and before its history append.
C5_RlsAfterWarmUp ==
    Running =>
        /\ \A i \in 1..Saved : i - 1 <= WarmUp => AllZ(self.rls_hist[i])
        /\ Sample <= WarmUp => ~Ran("rls")
        /\ (Sample > WarmUp /\ SampleDone) =>
               /\ CountOf("rls") = 1
               /\ \E k \in DOMAIN log :
                      /\ log[k] = "rls"
                      /\ \E j \in 1..(k - 1) : log[j] = "prune"
                      /\ \E j \in (k + 1)..Len(log) : log[j] = "save"

\* a run of a non-zero signal past the warm-up: the estimate recorded for
\* sample 50 is zero, the one recorded for sample 51 is not
C5_Witness ==
    /\ pc = "done"
    /\ self.L > WarmUp + 1
    /\ AllZ(self.rls_hist[WarmUp + 1])
    /\ ~AllZ(self.rls_hist[WarmUp + 2])

----------------------------------------------------------------------------
\* C6, as stated: a configuration with lambda outside (0,1) or fs, H or xi not
\* positive is rejected at construction: no object and no estimator state
\* exist for it and no sample is processed with it.
C6_InvalidConfigurationRejected ==
    ~ValidConfiguration(args) => (pc = "new" /\ self = NoValue)

----------------------------------------------------------------------------
\* no dictionary update runs after sample i and up to sample j
NoPassBetween(i, j) == \A k \in (i + 1)..j : k % DictPeriod # 0

\* C7: no stage other than the dictionary update changes f_mat, and the grid
\* recorded in freq_hist is the same at any two samples with no dictionary
\* update between them.
C7_GridChangedOnlyByDictionaryUpdate ==
    /\ [][(pc \in LoopStages \ {"dict"}) => self'.f_mat = self.f_mat]_vars
    /\ [](Running =>
            \A i \in 1..Saved : \A j \in i..Saved :
                NoPassBetween(i - 1, j - 1) => self.freq_hist[i] = self.freq_hist[j])

\* a finished run past the warm-up whose history holds the grid at every sample
C7_Witness ==
    /\ pc = "done"
    /\ self.L > WarmUp
    /\ self.H > 0
    /\ \A i \in 1..self.L : self.freq_hist[i] = ps

----------------------------------------------------------------------------
OrdersOf(S) ==
    {f \in [1..Cardinality(S) -> S] : \A i, j \in 1..Cardinality(S) : f[i] = f[j] => i = j}

\* C8: after one _rls_update the estimate x of every active group gp solves
\*   (R[gp,gp] + xi*I) x = r[gp] - R[gp,qp] rls_prev[qp] + xi * rls_prev[gp]
\* with rls_prev the estimate before the call; visiting the active groups in
\* any other order gives the same estimate; every group outside the active
\* set is zero.
C8_RlsReadsSnapshot ==
    (pc = "rls_in" /\ idx >= 1) =>
        LET b == locals.before
            n == Len(b.r)
            pitch(i) == (i - 1) \div b.H
            lhs(i) == RSum([k \in 1..n |->
                         IF pitch(k) = pitch(i)
                         THEN RMul(RInt(b.R[i][k] + (IF k = i THEN b.xi ELSE 0)), self.rls[k])
                         ELSE RInt(0)])
            rhs(i) == RAdd(RSub(RInt(b.r[i]),
                                RSum([k \in 1..n |->
                                    IF pitch(k) \in b.act /\ pitch(k) # pitch(i)
                                    THEN RMul(RInt(b.R[i][k]), b.rls[k])
                                    ELSE RInt(0)])),
                           RMul(RInt(b.xi), b.rls[i]))
        IN  /\ \A i \in 1..n : pitch(i) \in b.act => lhs(i) = rhs(i)
            /\ \A i \in 1..n : pitch(i) \notin b.act => self.rls[i] = RInt(0)
            /\ \A order \in OrdersOf(b.act) :
                   rls_update_in_order(b, order).rls = self.rls

\* a second call with at least two active groups coupled through R, on an
\* estimate the first call made non-zero
C8_Witness ==
    /\ pc = "rls_in" /\ idx = 2
    /\ Cardinality(self.act) >= 2
    /\ \E i, k \in DOMAIN self.rls :
          /\ (i - 1) \div self.H # (k - 1) \div self.H
          /\ (i - 1) \div self.H \in self.act
          /\ (k - 1) \div self.H \in self.act
          /\ self.R[i][k] # 0
          /\ locals.before.rls[k] # RInt(0)
          /\ locals.before.rls[k][2] > 1
          /\ self.rls[i] # locals.before.rls[i]

----------------------------------------------------------------------------
\* the window the penalty update is meant to use after n samples
ExpectedWindow(slf, n) ==
    [i \in 1..slf.Delta |->
        IF n - slf.Delta + i >= 1 THEN slf.s[n - slf.Delta + i] ELSE 0]

\* the column of the padded array that holds the samples
WindowColumn(s_win) == [i \in DOMAIN s_win |-> s_win[i][Len(s_win[i])]]

\* C9, as stated: the window of the penalty update of sample idx (n = idx + 1)
\* has Delta entries; for n < Delta the last n are s[0..n-1] and the first
\* Delta - n are zero, for n >= Delta they are s[n-Delta..n-1].
C9_WindowIsZeroPaddedOnTheLeft ==
    (Running /\ log # <<>> /\ ~SampleDone /\ ValidConfiguration(args)) =>
        WindowColumn(locals.s_win) = ExpectedWindow(self, idx + 1)

----------------------------------------------------------------------------
====
